---- MODULE Spec2Model ----
(***************************************************************************)
(* Model of src/src/main.rs: a main task that subscribes to a ticker feed  *)
(* and writes the latest price per product into a Mutex<HashMap>, and a    *)
(* spawned reporter task that every 30 seconds locks the map and prints    *)
(* it.                                                                     *)
(***************************************************************************)
EXTENDS Integers, Sequences, FiniteSets, TLC

\* ------------------------------------------------------------------ bounds
\* Number of inbound messages the transport delivers in one run.
MaxMsgs == 3

\* ------------------------------------------------------- values and inputs
\* JSON value shapes of a field that is not a string.
Missing == "<missing>"
Null    == "<null>"
Num     == "<number>"
\* Option::None of TickerMessage.price.
NoPrice == "<none>"

\* The symbols crypto.csv supplies (main.rs:50).
Configured == {"BTC-USD", "ETH-USD"}

\* A JSON object with the three fields TickerMessage reads.
Json(t, id, p) == [type |-> t, product_id |-> id, price |-> p]

Text(b)   == [kind |-> "text",   payload |-> b]
Binary(b) == [kind |-> "binary", payload |-> b]

\* The inbound messages the transport can deliver.
Messages ==
  { Text(Json("ticker", "BTC-USD", "50000.00")),
    Text(Json("ticker", "BTC-USD", "50010.50")),
    Text(Json("ticker", "ETH-USD", "50000.00")),
    Text(Json("ticker", "XRP-USD", "50010.50")),
    Text(Json("ticker", "ETH-USD", Null)),
    Text(Json("heartbeat", "BTC-USD", "1")),
    Text(Json("subscriptions", Missing, Missing)),
    Binary(Json("ticker", "ETH-USD", "50010.50")) }

NoMsg == [kind |-> "none", payload |-> Json(Missing, Missing, Missing)]

\* --------------------------------------------------------------- the state
VARIABLES
  pc,        \* position of main: load, connect, send, setup, recv, match,
             \*   lock, insert, unlock, ended, exited, aborted, panicked
  rpc,       \* position of the reporter task: unspawned, sleep, lock,
             \*   header, iter, unlock, panicked
  created,   \* the HashMap of main.rs:75 exists
  prices,    \* the HashMap: product_id -> price
  lock,      \* holder of the Mutex: none, main, reporter; poisoned when a
             \*   holder panicked
  cur,       \* the message main is handling
  sent,      \* outbound messages sent
  visited,   \* keys the reporter's iterator has yielded in this firing
  report,    \* (symbol, price) lines printed by the current/last firing
  received,  \* history: the Ok messages read.next() returned, in order
  signal,    \* history: terminal signal of the transport: none, error, eof
  startStore,\* history: the store when the current/last firing locked it
  completed, \* history: product_id -> price of the last completed insert
  doneAtStart,\* history: completed, when the current/last firing locked
  sinceStart,\* history: inserts completed since the firing locked
  fired,     \* history: a firing has completed
  prevReport \* history: the previous report, kept during a firing that no
             \*   insert separates from the previous one (else empty)

vars == << pc, rpc, created, prices, lock, cur, sent, visited, report,
           received, signal, startStore, completed, doneAtStart,
           sinceStart, fired, prevReport >>

mainVars == << pc, cur, sent, received, signal >>
repVars  == << rpc, visited, report, startStore, doneAtStart, fired,
              prevReport >>

\* ------------------------------------------------------------- pure parts
EmptyMap == [s \in {} |-> NoPrice]

\* entry(k).or_insert(v) in place of insert: an existing entry is kept.
InsertKeepOld(map, k, v) ==
  IF k \in DOMAIN map THEN map
  ELSE [x \in (DOMAIN map) \cup {k} |-> IF x = k THEN v ELSE map[x]]

\* insert(price, product_id): key and value the wrong way round.
InsertSwapped(map, k, v) ==
  [x \in (DOMAIN map) \cup {v} |-> IF x = v THEN k ELSE map[x]]

\* The map is replaced by the one new entry instead of being updated.
InsertReplaceAll(map, k, v) == [x \in {k} |-> v]

\* HashMap::insert (main.rs:104): upsert.
Insert(map, k, v) == [x \in (DOMAIN map) \cup {k} |-> IF x = k THEN v ELSE map[x]]

\* The (symbol, price) pairs of a map.
Pairs(map) == { <<s, map[s]>> : s \in DOMAIN map }

\* The is_text test left out: to_text also succeeds on UTF-8 binary frames.
is_textAlways(m) == TRUE

\* Message::is_text (main.rs:96).
is_text(m) == m.kind = "text"

\* Message::to_text (main.rs:97): the payload as a string slice.
to_text(m) == m.payload

IsStr(v) == v \notin {Missing, Null, Num}

\* serde_json::from_str::<TickerMessage> (main.rs:19-25, 100): msg_type and
\* product_id must be strings; price is None when missing or null, Some when
\* a string, and a decode error otherwise.
from_str(b) ==
  IF IsStr(b.type) /\ IsStr(b.product_id) /\ b.price /= Num
  THEN [ok |-> TRUE, msg_type |-> b.type, product_id |-> b.product_id,
        price |-> IF b.price \in {Missing, Null} THEN NoPrice ELSE b.price]
  ELSE [ok |-> FALSE, msg_type |-> Missing, product_id |-> Missing, price |-> NoPrice]

\* The filter without the msg_type test.
ApplicableAnyType(parsed) == parsed.price /= NoPrice

\* The filter without the price test.
ApplicableAnyPrice(parsed) == parsed.msg_type = "ticker"

\* The filter of main.rs:102.
Applicable(parsed) == parsed.msg_type = "ticker" /\ parsed.price /= NoPrice

\* A lock that never blocks.
LockFreeAlways(l) == TRUE

\* Mutex::lock returns only when nobody holds the mutex (main.rs:83, 103).
LockFree(l) == l = "none"

Parsed == from_str(to_text(cur))

\* -------------------------------------------------------------------- Init
Init ==
  /\ pc = "load"
  /\ rpc = "unspawned"
  /\ created = FALSE
  /\ prices = EmptyMap
  /\ lock = "none"
  /\ cur = NoMsg
  /\ sent = 0
  /\ visited = {}
  /\ report = {}
  /\ received = << >>
  /\ signal = "none"
  /\ startStore = EmptyMap
  /\ completed = EmptyMap
  /\ doneAtStart = EmptyMap
  /\ sinceStart = {}
  /\ fired = FALSE
  /\ prevReport = {}

\* ----------------------------------------------------------------- startup
storeVars == << created, prices, lock, completed, sinceStart >>

\* main.rs:50: load_symbols_from_csv succeeded.
LoadOk ==
  /\ pc = "load"
  /\ pc' = "connect"
  /\ UNCHANGED << cur, sent, received, signal, storeVars, repVars >>

\* main.rs:50: `?` on an unreadable or malformed crypto.csv.
LoadFail ==
  /\ pc = "load"
  /\ pc' = "aborted"
  /\ UNCHANGED << cur, sent, received, signal, storeVars, repVars >>

\* main.rs:65-67: URL parsed, connect_async succeeded.
ConnectOk ==
  /\ pc = "connect"
  /\ pc' = "send"
  /\ UNCHANGED << cur, sent, received, signal, storeVars, repVars >>

\* The store and the reporter set up before the connection is made.
ConnectFailLate ==
  /\ pc = "connect"
  /\ pc' = "aborted"
  /\ created' = TRUE
  /\ rpc' = "sleep"
  /\ UNCHANGED << cur, sent, received, signal, prices, lock, completed,
                  sinceStart, visited, report, startStore, doneAtStart,
                  fired, prevReport >>

\* main.rs:65-66: `?` on Url::parse or connect_async.
ConnectFail ==
  /\ pc = "connect"
  /\ pc' = "aborted"
  /\ UNCHANGED << cur, sent, received, signal, storeVars, repVars >>

\* One subscription request per symbol instead of one for the list.
SendOkTwice ==
  /\ pc = "send"
  /\ sent' = sent + 2
  /\ pc' = "setup"
  /\ UNCHANGED << cur, received, signal, storeVars, repVars >>

\* main.rs:70-72: the subscription request was sent.
SendOk ==
  /\ pc = "send"
  /\ sent' = sent + 1
  /\ pc' = "setup"
  /\ UNCHANGED << cur, received, signal, storeVars, repVars >>

\* main.rs:70-72: `?` on write.send.
SendFail ==
  /\ pc = "send"
  /\ pc' = "aborted"
  /\ UNCHANGED << cur, sent, received, signal, storeVars, repVars >>

\* The sleep placed at the end of the loop body: the reporter starts by
\* rendering.
SetupFireFirst ==
  /\ pc = "setup"
  /\ created' = TRUE
  /\ prices' = EmptyMap
  /\ rpc' = "lock"
  /\ pc' = "recv"
  /\ UNCHANGED << cur, sent, received, signal, lock, completed, sinceStart,
                  visited, report, startStore, doneAtStart, fired,
                  prevReport >>

\* main.rs:75-90: create the store, spawn the reporter (which starts by
\* sleeping).
Setup ==
  /\ pc = "setup"
  /\ created' = TRUE
  /\ prices' = EmptyMap
  /\ rpc' = "sleep"
  /\ pc' = "recv"
  /\ UNCHANGED << cur, sent, received, signal, lock, completed, sinceStart,
                  visited, report, startStore, doneAtStart, fired,
                  prevReport >>

\* ---------------------------------------------------------- ingestion loop
\* main.rs:93-95: read.next() yields Some(Ok(m)).
RecvMsg(m) ==
  /\ pc = "recv"
  /\ Len(received) < MaxMsgs
  /\ cur' = m
  /\ received' = Append(received, m)
  /\ pc' = "match"
  /\ UNCHANGED << sent, signal, storeVars, repVars >>

\* The error arm without its break: the loop polls the stream again.
RecvErrContinue ==
  /\ pc = "recv"
  /\ signal' = "error"
  /\ pc' = "recv"
  /\ UNCHANGED << cur, sent, received, storeVars, repVars >>

\* main.rs:109-113: read.next() yields Some(Err(e)): log and break.
RecvErr ==
  /\ pc = "recv"
  /\ signal' = "error"
  /\ pc' = "ended"
  /\ UNCHANGED << cur, sent, received, storeVars, repVars >>

\* main.rs:93: read.next() yields None: the while-let ends.
RecvEnd ==
  /\ pc = "recv"
  /\ signal' = "eof"
  /\ pc' = "ended"
  /\ UNCHANGED << cur, sent, received, storeVars, repVars >>

\* main.rs:96: not a text message: nothing to do.
IgnoreNonText ==
  /\ pc = "match"
  /\ ~is_text(cur)
  /\ cur' = NoMsg
  /\ pc' = "recv"
  /\ UNCHANGED << sent, received, signal, storeVars, repVars >>

\* main.rs:100: text that does not decode as a TickerMessage.
DiscardUndecodable ==
  /\ pc = "match"
  /\ is_text(cur)
  /\ ~Parsed.ok
  /\ cur' = NoMsg
  /\ pc' = "recv"
  /\ UNCHANGED << sent, received, signal, storeVars, repVars >>

\* main.rs:102: decoded, but not a ticker or without a price.
DiscardInapplicable ==
  /\ pc = "match"
  /\ is_text(cur)
  /\ Parsed.ok
  /\ ~Applicable(Parsed)
  /\ cur' = NoMsg
  /\ pc' = "recv"
  /\ UNCHANGED << sent, received, signal, storeVars, repVars >>

\* main.rs:102: a ticker with a price: go on to lock the store.
Accept ==
  /\ pc = "match"
  /\ is_text(cur)
  /\ Parsed.ok
  /\ Applicable(Parsed)
  /\ pc' = "lock"
  /\ UNCHANGED << cur, sent, received, signal, storeVars, repVars >>

\* main.rs:103: prices.lock().unwrap().
IngestLock ==
  /\ pc = "lock"
  /\ LockFree(lock)
  /\ lock' = "main"
  /\ pc' = "insert"
  /\ UNCHANGED << cur, sent, received, signal, created, prices, completed,
                  sinceStart, repVars >>

\* main.rs:104: map.insert(product_id, price).
IngestInsert ==
  /\ pc = "insert"
  /\ prices' = Insert(prices, Parsed.product_id, Parsed.price)
  /\ completed' = [x \in (DOMAIN completed) \cup {Parsed.product_id} |->
                     IF x = Parsed.product_id THEN Parsed.price ELSE completed[x]]
  /\ sinceStart' = sinceStart \cup { <<Parsed.product_id, Parsed.price>> }
  /\ pc' = "unlock"
  /\ UNCHANGED << cur, sent, received, signal, created, lock, repVars >>

\* main.rs:105: the guard `map` goes out of scope.
IngestUnlock ==
  /\ pc = "unlock"
  /\ lock' = "none"
  /\ cur' = NoMsg
  /\ pc' = "recv"
  /\ UNCHANGED << sent, received, signal, created, prices, completed,
                  sinceStart, repVars >>

\* main.rs:117: main returns Ok(()); the runtime shuts down and the reporter
\* is dropped at its next await.
MainReturn ==
  /\ pc = "ended"
  /\ pc' = "exited"
  /\ UNCHANGED << cur, sent, received, signal, storeVars, repVars >>

\* ---------------------------------------------------------------- reporter
\* A reporter on a thread of its own, which outlives the return of main.
ReporterWakeAlways ==
  /\ rpc = "sleep"
  /\ rpc' = "lock"
  /\ UNCHANGED << mainVars, storeVars, visited, report, startStore,
                  doneAtStart, fired, prevReport >>

\* main.rs:81: the 30 second sleep elapses (only while the runtime lives).
ReporterWake ==
  /\ rpc = "sleep"
  /\ pc /= "exited"
  /\ rpc' = "lock"
  /\ UNCHANGED << mainVars, storeVars, visited, report, startStore,
                  doneAtStart, fired, prevReport >>

\* main.rs:83: prices_clone.lock().unwrap().
ReporterLock ==
  /\ rpc = "lock"
  /\ LockFree(lock)
  /\ lock' = "reporter"
  /\ rpc' = "header"
  /\ startStore' = prices
  /\ doneAtStart' = completed
  /\ sinceStart' = {}
  /\ prevReport' = IF fired /\ sinceStart = {} THEN {report} ELSE {}
  /\ UNCHANGED << mainVars, created, prices, completed, visited, report, fired >>

\* main.rs:84: the banner; the iterator of main.rs:85 is created.
ReporterHeader ==
  /\ rpc = "header"
  /\ visited' = {}
  /\ report' = {}
  /\ rpc' = "iter"
  /\ UNCHANGED << mainVars, storeVars, startStore, doneAtStart, fired,
                  prevReport >>

\* drain() in place of iter(): each rendered entry is removed from the map.
ReporterEntryDrain ==
  /\ rpc = "iter"
  /\ \E s \in DOMAIN prices :
        /\ visited' = visited \cup {s}
        /\ report' = report \cup { <<s, prices[s]>> }
        /\ prices' = [x \in (DOMAIN prices) \ {s} |-> prices[x]]
  /\ UNCHANGED << mainVars, created, lock, completed, sinceStart, rpc,
                  startStore, doneAtStart, fired, prevReport >>

\* main.rs:85-87: the iterator yields one more entry of the map, in no
\* particular order, and the line is printed.
ReporterEntry ==
  /\ rpc = "iter"
  /\ \E s \in (DOMAIN prices) \ visited :
        /\ visited' = visited \cup {s}
        /\ report' = report \cup { <<s, prices[s]>> }
  /\ UNCHANGED << mainVars, storeVars, rpc, startStore, doneAtStart, fired,
                  prevReport >>

\* main.rs:85, 88: the iterator is exhausted; the closing banner.
ReporterFooter ==
  /\ rpc = "iter"
  /\ (DOMAIN prices) \ visited = {}
  /\ rpc' = "unlock"
  /\ UNCHANGED << mainVars, storeVars, visited, report, startStore,
                  doneAtStart, fired, prevReport >>

\* The guard taken outside the loop: it is still held during the sleep.
ReporterUnlockHold ==
  /\ rpc = "unlock"
  /\ rpc' = "sleep"
  /\ fired' = TRUE
  /\ prevReport' = {}
  /\ UNCHANGED << mainVars, storeVars, visited, report, startStore,
                  doneAtStart >>

\* main.rs:89: the guard `prices` goes out of scope; back to the sleep.
ReporterUnlock ==
  /\ rpc = "unlock"
  /\ lock' = "none"
  /\ rpc' = "sleep"
  /\ fired' = TRUE
  /\ prevReport' = {}
  /\ UNCHANGED << mainVars, created, prices, completed, sinceStart, visited,
                  report, startStore, doneAtStart >>

\* -------------------------------------------------------------------- Next
Next ==
  \/ LoadOk
  \/ LoadFail
  \/ ConnectOk
  \/ ConnectFail
  \/ SendOk
  \/ SendFail
  \/ Setup
  \/ \E m \in Messages : RecvMsg(m)
  \/ RecvErr
  \/ RecvEnd
  \/ IgnoreNonText
  \/ DiscardUndecodable
  \/ DiscardInapplicable
  \/ Accept
  \/ IngestLock
  \/ IngestInsert
  \/ IngestUnlock
  \/ MainReturn
  \/ ReporterWake
  \/ ReporterLock
  \/ ReporterHeader
  \/ ReporterEntry
  \/ ReporterFooter
  \/ ReporterUnlock

Spec == Init /\ [][Next]_vars

\* ------------------------------------------------- a console that can fail
\* main.rs:84, 86, 88: println! panics when the write to stdout fails (a
\* closed pipe, for one).  The panic unwinds the reporter task: the guard is
\* dropped during the unwinding, which poisons the mutex, and the task ends.
ReporterPanic ==
  /\ rpc \in {"header", "iter"}
  /\ rpc' = "panicked"
  /\ lock' = "poisoned"
  /\ UNCHANGED << mainVars, created, prices, completed, sinceStart, visited,
                  report, startStore, doneAtStart, fired, prevReport >>

\* main.rs:103: lock() on the poisoned mutex returns Err and unwrap panics:
\* main unwinds and the process ends.
IngestLockPoisoned ==
  /\ pc = "lock"
  /\ lock = "poisoned"
  /\ pc' = "panicked"
  /\ UNCHANGED << cur, sent, received, signal, storeVars, repVars >>

PanicNext ==
  \/ Next
  \/ ReporterPanic
  \/ IngestLockPoisoned

\* The program with a console whose writes can fail.
PanicSpec == Init /\ [][PanicNext]_vars

TypeOK ==
  /\ pc \in {"load", "connect", "send", "setup", "recv", "match", "lock",
             "insert", "unlock", "ended", "exited", "aborted", "panicked"}
  /\ rpc \in {"unspawned", "sleep", "lock", "header", "iter", "unlock",
              "panicked"}
  /\ lock \in {"none", "main", "reporter", "poisoned"}
  /\ created \in BOOLEAN
  /\ sent \in 0..1
  /\ Len(received) <= MaxMsgs
  /\ signal \in {"none", "error", "eof"}
  /\ fired \in BOOLEAN

\* ---------------------------------------------------------------- fairness
\* The steps main takes by itself once it is scheduled (everything but the
\* arrival of input and the lock).
MainStep ==
  \/ LoadOk \/ LoadFail \/ ConnectOk \/ ConnectFail \/ SendOk \/ SendFail
  \/ Setup \/ IgnoreNonText \/ DiscardUndecodable \/ DiscardInapplicable
  \/ Accept \/ IngestInsert \/ IngestUnlock \/ MainReturn

\* The steps of the reporter other than the lock; the timer of the sleep
\* elapses while the runtime lives.
ReporterStep ==
  \/ ReporterWake \/ ReporterHeader \/ ReporterEntry \/ ReporterFooter
  \/ ReporterUnlock

\* Both tasks are scheduled (tokio's multi-thread runtime); a task blocked in
\* Mutex::lock gets the mutex when it is free again and again: each holder
\* releases it after a bounded section and then suspends (30 s of sleep,
\* read.next().await).  Nothing forces the transport to deliver anything.
LiveSpec ==
  /\ Init /\ [][Next]_vars
  /\ WF_vars(MainStep)
  /\ WF_vars(ReporterStep)
  /\ SF_vars(IngestLock)
  /\ SF_vars(ReporterLock)

\* LiveSpec with the console that can fail: nothing forces a write to fail,
\* and main, once it wants the poisoned lock, gets its error.
PanicLiveSpec ==
  /\ Init /\ [][PanicNext]_vars
  /\ WF_vars(MainStep)
  /\ WF_vars(ReporterStep)
  /\ SF_vars(IngestLock)
  /\ SF_vars(ReporterLock)
  /\ WF_vars(IngestLockPoisoned)

\* ------------------------------------------------------------------ claims
Last(log) == log[Len(log)]
Front(log) == SubSeq(log, 1, Len(log) - 1)

\* An inbound message that is an applicable event: a text message holding a
\* JSON object of type "ticker" with a symbol and a price.
TickerWithPrice(m) ==
  /\ m.kind = "text"
  /\ m.payload.type = "ticker"
  /\ m.payload.product_id \notin {Missing, Null, Num}
  /\ m.payload.price \notin {Missing, Null, Num}

\* The symbols with an applicable event in the log.
SymbolsOf(log) ==
  { log[i].payload.product_id : i \in { j \in 1..Len(log) : TickerWithPrice(log[j]) } }

\* The price of the last applicable event for s in the log.
RECURSIVE LastPrice(_, _)
LastPrice(log, s) ==
  IF log = << >> THEN NoPrice
  ELSE IF TickerWithPrice(Last(log)) /\ Last(log).payload.product_id = s
       THEN Last(log).payload.price
       ELSE LastPrice(Front(log), s)

ExpectedStore(log) == [s \in SymbolsOf(log) |-> LastPrice(log, s)]

\* C1: once the loop has processed the messages it received, the store holds
\* for every symbol exactly the price of the most recently received
\* applicable event, and nothing for other symbols; while the newest message
\* is still being handled the store reflects all the earlier ones.
C1_LatestWriteWins ==
  /\ pc \in {"recv", "unlock", "ended", "exited"} => prices = ExpectedStore(received)
  /\ pc \in {"match", "lock", "insert"} => prices = ExpectedStore(Front(received))

C1_Witness ==
  /\ pc = "recv"
  /\ received = << Text(Json("ticker", "BTC-USD", "50000.00")),
                   Text(Json("ticker", "BTC-USD", "50010.50")),
                   Text(Json("heartbeat", "BTC-USD", "1")) >>
  /\ DOMAIN prices = {"BTC-USD"}
  /\ prices["BTC-USD"] = "50010.50"

Rendering == rpc \in {"header", "iter", "unlock"}

\* C2: from the moment a firing locks the store until it has rendered the
\* last entry the store is the one it locked, and the finished report is
\* exactly that store's set of entries.
C2_ReportIsOneInstant ==
  /\ Rendering => prices = startStore
  /\ rpc = "iter" => report \subseteq Pairs(startStore)
  /\ rpc = "unlock" => report = Pairs(startStore)
  /\ (rpc \in {"sleep", "lock"} /\ fired) => report = Pairs(startStore)

C2_Witness ==
  /\ rpc = "unlock"
  /\ Cardinality(report) = 2
  /\ pc = "lock"

\* C3: a finished report has, for every symbol with an update completed
\* before the firing began its read, exactly one entry, and its value is
\* that of the last such update or of an update completed since.
C3_NoMissingEntry ==
  rpc = "unlock" =>
    \A s \in DOMAIN doneAtStart :
      /\ \E e \in report : e[1] = s
      /\ \A e \in report :
           e[1] = s => (e[2] = doneAtStart[s] \/ e \in sinceStart)

C3_Witness ==
  /\ rpc = "unlock"
  /\ DOMAIN doneAtStart = {"BTC-USD", "ETH-USD"}
  /\ doneAtStart["BTC-USD"] = "50010.50"
  /\ pc = "lock"

MainInSection == pc \in {"insert", "unlock"}
ReporterInSection == rpc \in {"header", "iter", "unlock"}

\* C4: main and the reporter are never both inside their locked sections.
C4_MutualExclusion == ~(MainInSection /\ ReporterInSection)

C4_Witness ==
  /\ pc = "lock"
  /\ rpc = "iter"
  /\ lock = "reporter"
  /\ visited /= {}

\* C5: handling a decoded event whose type is not "ticker" leaves the store
\* unchanged and takes main back to receiving.
C5_NonTickerIgnored ==
  [][ (pc = "match" /\ cur.kind = "text" /\ Parsed.ok /\ Parsed.msg_type /= "ticker")
        => (prices' = prices /\ pc' \in {"match", "recv"}) ]_vars

C5_Witness ==
  /\ pc = "recv"
  /\ Len(received) = 2
  /\ Last(received) = Text(Json("heartbeat", "BTC-USD", "1"))
  /\ "BTC-USD" \in DOMAIN prices
  /\ prices["BTC-USD"] = "50000.00"

\* C6: handling a decoded "ticker" event without a price leaves the store
\* unchanged, the entry of its symbol included, and takes main back to
\* receiving.
C6_NoPriceIgnored ==
  [][ (pc = "match" /\ cur.kind = "text" /\ Parsed.ok /\ Parsed.msg_type = "ticker"
         /\ cur.payload.price \in {Missing, Null})
        => (prices' = prices /\ pc' \in {"match", "recv"}) ]_vars

C6_Witness ==
  /\ pc = "recv"
  /\ Len(received) = 2
  /\ Last(received) = Text(Json("ticker", "ETH-USD", Null))
  /\ "ETH-USD" \in DOMAIN prices
  /\ prices["ETH-USD"] = "50000.00"

\* C7: handling a message that is not text, or text that does not decode,
\* leaves the store unchanged and takes main back to receiving.
C7_MalformedIgnored ==
  [][ (pc = "match" /\ (cur.kind /= "text" \/ ~Parsed.ok))
        => (prices' = prices /\ pc' \in {"match", "recv"}) ]_vars

C7_Witness ==
  /\ pc = "recv"
  /\ Len(received) = 3
  /\ received[1] = Text(Json("ticker", "BTC-USD", "50000.00"))
  /\ received[2] = Text(Json("subscriptions", Missing, Missing))
  /\ received[3] = Binary(Json("ticker", "ETH-USD", "50010.50"))
  /\ DOMAIN prices = {"BTC-USD"}

\* C8: the step on which the transport signals an error or the end of the
\* stream ends the loop and leaves the store as it was, holding every update
\* received before; from then on nothing is received, sent or written.
C8_StopsOnTransportEnd ==
  [][ /\ (signal = "none" /\ signal' /= "none")
           => (pc' = "ended" /\ prices' = prices /\ prices' = ExpectedStore(received))
      /\ signal /= "none"
           => (pc' \in {"ended", "exited"} /\ received' = received
               /\ prices' = prices /\ sent' = sent) ]_vars

C8_Witness ==
  /\ pc = "ended"
  /\ signal = "error"
  /\ DOMAIN prices = {"BTC-USD", "ETH-USD"}
  /\ fired

\* C9: no step of the reporter changes the store, and the only step that
\* does is main inserting the price of the applicable event it is handling.
C9_ReporterReadOnly ==
  [][ /\ rpc' /= rpc => prices' = prices
      /\ (visited' /= visited \/ report' /= report) => prices' = prices
      /\ prices' /= prices
           => /\ pc = "insert" /\ pc' = "unlock"
              /\ TickerWithPrice(cur)
              /\ Pairs(prices') \ Pairs(prices)
                   = { <<cur.payload.product_id, cur.payload.price>> } ]_vars

C9_Witness ==
  /\ rpc = "unlock"
  /\ fired
  /\ Cardinality(DOMAIN prices) = 3
  /\ report = Pairs(prices)

\* C10: while the process runs the reporter completes firings again and
\* again, whether or not anything arrives; an accepted event is eventually
\* inserted; and a task waiting for the lock eventually gets it.
C10_Progress ==
  /\ ([]<>(rpc = "unlock") \/ <>(pc \in {"exited", "aborted", "panicked"}))
  /\ ((pc = "lock") ~> (pc = "unlock"))
  /\ ((rpc = "lock") ~> (rpc = "header"))

C10_Witness ==
  /\ pc = "lock"
  /\ lock = "reporter"
  /\ fired
  /\ rpc = "iter"

\* C11: after a startup failure nothing was received, the store was never
\* created or written, and the reporter was never spawned and never fired.
C11_AbortBeforeIngestion ==
  pc = "aborted" =>
    /\ received = << >>
    /\ ~created
    /\ prices = EmptyMap
    /\ completed = EmptyMap
    /\ rpc = "unspawned"
    /\ ~fired
    /\ report = {}
    /\ lock = "none"

C11_Witness ==
  /\ pc = "aborted"
  /\ sent = 0
  /\ rpc = "unspawned"

\* C12 as stated: the store never holds more entries than there are
\* configured symbols, nor an entry for a symbol outside the configured list.
C12_BoundedByConfigured ==
  /\ DOMAIN prices \subseteq Configured
  /\ Cardinality(DOMAIN prices) <= Cardinality(Configured)

\* C12 as amended: the store holds entries only for symbols named by the
\* applicable events received, at most one per received message.
C12_KeysFromEvents ==
  /\ DOMAIN prices \subseteq SymbolsOf(received)
  /\ Cardinality(DOMAIN prices) <= Len(received)

C12_Witness ==
  /\ "XRP-USD" \in DOMAIN prices
  /\ Cardinality(DOMAIN prices) = 3
  /\ pc = "recv"

\* C13: a firing that no insert separates from the previous firing renders
\* the same set of (symbol, price) pairs as the previous one.
C13_SameReportWhenQuiet ==
  rpc = "unlock" => \A r \in prevReport : report = r

C13_Witness ==
  /\ rpc = "unlock"
  /\ prevReport /= {}
  /\ Cardinality(report) = 2
  /\ pc = "recv"

\* C14: main waiting for the next message (or anywhere outside lines
\* 103-105) does not hold the lock, nor does the sleeping reporter, and a
\* task that wants the lock while the other is suspended finds it free.
C14_NoLockWhileSuspended ==
  /\ pc \notin {"insert", "unlock"} => lock /= "main"
  /\ rpc = "sleep" => lock /= "reporter"
  /\ (pc = "lock" /\ rpc = "sleep") => lock = "none"
  /\ (rpc = "lock" /\ pc = "recv") => lock = "none"

C14_Witness ==
  /\ pc = "recv"
  /\ rpc = "sleep"
  /\ fired
  /\ Cardinality(DOMAIN prices) = 2
  /\ lock = "none"

LoopEnded == pc \in {"ended", "exited"}

\* C15 as stated: once the ingestion loop has ended the reporter starts no
\* firing: it never leaves its sleep again.
C15_NoFiringAfterLoopEnd ==
  [][ LoopEnded => ~(rpc = "sleep" /\ rpc' /= "sleep") ]_vars

\* C15 as amended: once main has returned the reporter never leaves its
\* sleep again, and until then a sleeping reporter can always wake.
C15_NoFiringAfterReturn ==
  /\ [][ pc = "exited" => ~(rpc = "sleep" /\ rpc' /= "sleep") ]_vars
  /\ []((rpc = "sleep" /\ pc /= "exited") => ENABLED ReporterWake)

C15_Witness ==
  /\ pc = "exited"
  /\ rpc = "sleep"
  /\ fired
  /\ signal = "error"

\* C16: the one step that sends takes the count of outbound messages from 0
\* to 1 while nothing has been received and the store does not exist; once
\* the store exists or a message was received the count is 1.
C16_OneSubscription ==
  [][ /\ sent' /= sent
           => /\ sent = 0 /\ sent' = 1
              /\ ~created /\ ~created'
              /\ received = << >> /\ received' = << >>
      /\ (created' \/ received' /= << >>) => sent' = 1 ]_vars

C16_Witness ==
  /\ sent = 1
  /\ Len(received) = 3
  /\ pc = "ended"
  /\ fired

\* C17: the store is empty until it is created and when it is created; no
\* step removes a key; a step that changes the value of a key is the insert
\* of the price of the newest received event, which is applicable and names
\* that key.
C17_KeysOnlyGrow ==
  [][ /\ ~created' => prices' = EmptyMap
      /\ (~created /\ created') => prices' = EmptyMap
      /\ DOMAIN prices \subseteq DOMAIN prices'
      /\ \A s \in DOMAIN prices :
           prices'[s] /= prices[s]
             => /\ received /= << >>
                /\ cur = Last(received)
                /\ TickerWithPrice(cur)
                /\ cur.payload.product_id = s
                /\ prices'[s] = cur.payload.price ]_vars

C17_Witness ==
  /\ pc = "unlock"
  /\ received = << Text(Json("ticker", "ETH-USD", "50000.00")),
                   Text(Json("ticker", "BTC-USD", "50000.00")),
                   Text(Json("ticker", "BTC-USD", "50010.50")) >>
  /\ prices["BTC-USD"] = "50010.50"
  /\ prices["ETH-USD"] = "50000.00"

\* The reporter starts in the sleep, and reaches the lock only from the
\* sleep, the rendering only from the lock, and the next sleep only from the
\* end of a rendering; nothing is printed outside a rendering.
ReporterCycle ==
  /\ rpc' /= rpc =>
       /\ rpc' = "sleep"  => rpc \in {"unspawned", "unlock"}
       /\ rpc' = "lock"   => rpc = "sleep"
       /\ rpc' = "header" => rpc = "lock"
       /\ rpc' = "iter"   => rpc = "header"
       /\ rpc' = "unlock" => rpc = "iter"
  /\ report' /= report => rpc \in {"header", "iter"}

FirstSleep == rpc = "sleep" /\ ~fired

\* C18 as stated: every firing follows a sleep, and when the ingestion loop
\* has ended while the reporter is still in its first sleep, no report is
\* ever rendered.
C18_NoReportIfLoopEndsFirst ==
  [][ /\ ReporterCycle
      /\ (LoopEnded /\ FirstSleep) => (rpc' = "sleep" /\ report' = {}) ]_vars

\* C18 as amended: every firing follows a sleep, nothing is rendered before
\* the first sleep has elapsed, and when main has returned while the
\* reporter is still in its first sleep, no report is ever rendered.
C18_NoReportIfReturnFirst ==
  [][ /\ ReporterCycle
      /\ FirstSleep => report = {}
      /\ (pc = "exited" /\ FirstSleep) => (rpc' = "sleep" /\ report' = {}) ]_vars

C18_Witness ==
  /\ pc = "exited"
  /\ FirstSleep
  /\ report = {}
  /\ Cardinality(DOMAIN prices) = 2

\* C19: the mutex is never poisoned and no task ends by a failure, in its
\* locked section or at an acquisition of the lock.
C19_LockNeverPoisoned ==
  /\ lock /= "poisoned"
  /\ rpc /= "panicked"
  /\ pc /= "panicked"
====
